---- MODULE Spec2Model ----
(***************************************************************************)
(* A model of dit/distconst.py: the specialised distribution constructors  *)
(* (mixtures, uniform and random distributions, the simplex grid) and the  *)
(* random-variable function builder.                                       *)
(*                                                                         *)
(* Distributions are objects on a heap: `objs` holds the Distribution      *)
(* objects, `arrs` the NumPy arrays their `pmf` attributes refer to, so    *)
(* that copying and aliasing are visible.  Probabilities are exact         *)
(* rationals; a stored number is either a real number or the logarithm of  *)
(* one, as the distribution's base requires.                               *)
(***************************************************************************)
EXTENDS Integers, Sequences, FiniteSets, TLC

VARIABLES objs, arrs, args, ret, pre, gen

vars == <<objs, arrs, args, ret, pre, gen>>

(***************************************************************************)
(* Bounds of the model.                                                    *)
(***************************************************************************)
\* the longest list of distributions (and of weights) handed to a mixture
MaxDists == 2
\* masses of the input distributions are multiples of 1/MassDen
MassDen == 2
\* weights are multiples of 1/WeightDen
WeightDen == 2
\* the longest outcome and the longest list of alphabets handed to uniform
MaxLength == 2
\* the largest integer count or alphabet size handed to a constructor
MaxCount == 2
\* the largest `length` and the largest `depth` handed to simplex_grid
MaxGridLength == 2
MaxDepth == 2
\* the largest number of grid steps per axis, base ** depth, of a call
MaxTotal == 7
\* the number of times the caller calls simplex_grid with the same arguments
MaxCalls == 2
\* the longest outcome of a distribution that is extended by insert_rvf
MaxBits == 2
\* the longest list of functions handed to insert_rvf
MaxFuncs == 2
\* the longest outcome of a distribution extended with from_hexes, and the
\* longest string of hex digits handed to from_hexes
MaxHexBits == 3
MaxHexes == 2

(***************************************************************************)
(* Exact arithmetic: a rational is <<numerator, denominator>> in lowest    *)
(* terms.                                                                  *)
(***************************************************************************)
RECURSIVE GCD(_, _)
GCD(a, b) ==
    IF b = 0 THEN a ELSE GCD(b, a % b)

Norm(n, d) ==
    LET g == GCD(n, d) IN <<n \div g, d \div g>>

RZero == <<0, 1>>

ROne == <<1, 1>>

RAdd(x, y) ==
    Norm(x[1] * y[2] + y[1] * x[2], x[2] * y[2])

RMul(x, y) ==
    Norm(x[1] * y[1], x[2] * y[2])

RECURSIVE RSum(_)
RSum(s) ==
    IF s = <<>> THEN RZero ELSE RAdd(s[1], RSum(Tail(s)))

(***************************************************************************)
(* Stored numbers.  Real(r) is the number r; LogOf(r) is the number        *)
(* log_b(r), so LogOf(RZero) is -inf and LogOf(ROne) is the number 0.      *)
(***************************************************************************)
Real(r) ==
    [dom |-> "real", r |-> r]

LogOf(r) ==
    [dom |-> "logof", r |-> r]

\* The Python literal 0.
Literal0 ==
    Real(RZero)

\* A number read as a logarithm: the real number 0 is log_b(1).
AsLog(x) ==
    CASE x.dom = "logof" -> x
      [] x.dom = "real" /\ x.r = RZero -> LogOf(ROne)

\* A number read as a plain real.
AsReal(x) ==
    CASE x.dom = "real" -> x

(***************************************************************************)
(* The operator adapter (dist.ops): arithmetic on probabilities in the     *)
(* distribution's base, "linear" or "log".                                 *)
(***************************************************************************)
ops_mult(ops, x, y) ==
    IF ops = "linear"
    THEN Real(RMul(AsReal(x).r, AsReal(y).r))
    ELSE LogOf(RMul(AsLog(x).r, AsLog(y).r))

ops_add(ops, x, y) ==
    IF ops = "linear"
    THEN Real(RAdd(AsReal(x).r, AsReal(y).r))
    ELSE LogOf(RAdd(AsLog(x).r, AsLog(y).r))

ops_zero(ops) ==
    IF ops = "linear" THEN Real(RZero) ELSE LogOf(RZero)

ops_one(ops) ==
    IF ops = "linear" THEN Real(ROne) ELSE LogOf(ROne)

RECURSIVE ops_add_reduce(_, _)
ops_add_reduce(ops, s) ==
    IF s = <<>> THEN ops_zero(ops)
    ELSE ops_add(ops, s[1], ops_add_reduce(ops, Tail(s)))

\* The probability a stored number stands for under the given base.
Prob(ops, x) ==
    IF ops = "linear" THEN AsReal(x).r ELSE AsLog(x).r

\* A probability as it is stored under the given base.
Stored(ops, r) ==
    IF ops = "linear" THEN Real(r) ELSE LogOf(r)

\* validate_pmf(weights, ops): every entry a probability, the sum one.
validate_pmf(W, ops) ==
    LET p == [i \in 1..Len(W) |-> Prob(ops, W[i])]
    IN  IF \E i \in 1..Len(W) : p[i][1] > p[i][2] THEN "InvalidProbability"
        ELSE IF RSum(p) # ROne THEN "InvalidNormalization"
        ELSE "ok"

(***************************************************************************)
(* Results of a call.                                                      *)
(***************************************************************************)
\* What a call left behind: nothing yet, a raised exception, a reference to
\* the returned object, or a returned plain value.
NoRet ==
    [kind |-> "none", call |-> "", err |-> "", id |-> 0]

Raise(e) ==
    [kind |-> "error", call |-> "", err |-> e, id |-> 0]

Ref(a) ==
    [kind |-> "ref", call |-> "", err |-> "", id |-> a]

\* A distribution value: outcomes, the pmf aligned with them, the base.
DistVal(outcomes, pmf, base) ==
    [kind |-> "dist", outcomes |-> outcomes, pmf |-> pmf, base |-> base]

\* Distribution(outcomes, pmf, base=...): the constructor keeps the pairing
\* of outcomes and masses.
Distribution(outcomes, pmf, base) ==
    DistVal(outcomes, pmf, base)

Range(s) ==
    {s[i] : i \in 1..Len(s)}

IndexOf(s, x) ==
    CHOOSE i \in 1..Len(s) : s[i] = x

\* d[o]: the mass of outcome o; o must be an outcome of d.
GetItem(d, o) ==
    d.pmf[IndexOf(d.outcomes, o)]

\* o in d
Contains(d, o) ==
    o \in Range(d.outcomes)

\* The value of the distribution object at heap address a.
Deref(O, A, a) ==
    DistVal(O[a].outcomes, A[O[a].pmf], O[a].base)

\* What a function leaves behind: the heap and what it returned or raised.
Outcome(O, A, r) ==
    [objs |-> O, arrs |-> A, ret |-> r]

\* A new Distribution object with a new pmf array.
NewDist(O, A, d) ==
    Outcome(Append(O, [outcomes |-> d.outcomes, pmf |-> Len(A) + 1, base |-> d.base]),
            Append(A, d.pmf),
            Ref(Len(O) + 1))

\* dist.copy(): a new object with the same outcomes and base and a copy of
\* the pmf array.
copy(O, A, a) ==
    NewDist(O, A, Deref(O, A, a))

\* The orders in which a set may be iterated.
Orders(S) ==
    {s \in [1..Cardinality(S) -> S] : \A i, j \in 1..Cardinality(S) : s[i] = s[j] => i = j}

(***************************************************************************)
(* mixture_distribution(dists, weights, merge)                             *)
(***************************************************************************)
\* set().union(*[d.outcomes for d in dists])
mix_outcomes(D) ==
    UNION {Range(D[i].outcomes) : i \in 1..Len(D)}

\* A slip: the weights are left out of the products.
mix_vals_unweighted(ops, D, W, merge, o) ==
    [i \in 1..Len(D) |->
        IF merge
        THEN IF Contains(D[i], o) THEN GetItem(D[i], o) ELSE Literal0
        ELSE GetItem(D[i], o)]

\* vals(o): the weighted masses of outcome o, one for each distribution.
mix_vals(ops, D, W, merge, o) ==
    [i \in 1..Len(D) |->
        IF merge
        THEN IF Contains(D[i], o) THEN ops_mult(ops, W[i], GetItem(D[i], o)) ELSE Literal0
        ELSE ops_mult(ops, W[i], GetItem(D[i], o))]

\* The checks made before mixing: the lengths, dists[0].ops, the weights.
mix_check(D, W) ==
    IF Len(D) # Len(W) THEN "ditException"
    ELSE IF D = <<>> THEN "IndexError"
    ELSE validate_pmf(W, D[1].base)

\* D: the values of dists; order: the iteration order of the outcome set.
mixture_distribution(O, A, D, W, merge, order) ==
    IF mix_check(D, W) # "ok" THEN Outcome(O, A, Raise(mix_check(D, W)))
    ELSE IF ~merge /\ \E k \in 1..Len(order), i \in 1..Len(D) : ~Contains(D[i], order[k])
    THEN Outcome(O, A, Raise("InvalidOutcome"))
    ELSE LET ops == D[1].base
         IN  NewDist(O, A, Distribution(order,
                 [k \in 1..Len(order) |->
                     ops_add_reduce(ops, mix_vals(ops, D, W, merge, order[k]))],
                 ops))

(***************************************************************************)
(* mixture_distribution2(dists, weights)                                   *)
(***************************************************************************)
\* set([dist.pmf.shape for dist in dists])
mix2_shapes(O, A, ds) ==
    {Len(A[O[ds[i]].pmf]) : i \in 1..Len(ds)}

\* A slip: the accumulator is dists[0] itself.
mix2_working_alias(O, A, a) ==
    Outcome(O, A, Ref(a))

\* mix = dists[0].copy()
mix2_working_copy(O, A, a) ==
    copy(O, A, a)

\* A slip: the first distribution is not scaled by its weight.
mix2_scale_skipped(ops, A, p, w) ==
    A

\* ops.mult_inplace(mix.pmf, weights[0])
mix2_scale(ops, A, p, w) ==
    [A EXCEPT ![p] = [k \in 1..Len(@) |-> ops_mult(ops, @[k], w)]]

\* The loop from the i-th distribution on:
\* ops.add_inplace(mix.pmf, ops.mult(dist.pmf, weight))
RECURSIVE mix2_accumulate(_, _, _, _, _, _, _)
mix2_accumulate(ops, O, A, p, ds, ws, i) ==
    IF i > Len(ds) THEN A
    ELSE LET term == [k \in 1..Len(A[O[ds[i]].pmf]) |->
                         ops_mult(ops, A[O[ds[i]].pmf][k], A[ws][i])]
             A2 == [A EXCEPT ![p] = [k \in 1..Len(@) |-> ops_add(ops, @[k], term[k])]]
         IN  mix2_accumulate(ops, O, A2, p, ds, ws, i + 1)

\* A slip: the shapes and the weights are checked before the lengths.
mix2_check_lengths_last(O, A, ds, W) ==
    IF ds # <<>> /\ Cardinality(mix2_shapes(O, A, ds)) # 1 THEN "ValueError"
    ELSE IF ds # <<>> /\ validate_pmf(W, O[ds[1]].base) # "ok"
    THEN validate_pmf(W, O[ds[1]].base)
    ELSE IF Len(ds) # Len(W) THEN "ditException"
    ELSE IF ds = <<>> THEN "ValueError"
    ELSE "ok"

\* The checks made before mixing: the lengths, the shapes, the weights.
mix2_check(O, A, ds, W) ==
    IF Len(ds) # Len(W) THEN "ditException"
    ELSE IF Cardinality(mix2_shapes(O, A, ds)) # 1 THEN "ValueError"
    ELSE validate_pmf(W, O[ds[1]].base)

\* ds: the heap addresses of dists; ws: the heap address of the weights.
mixture_distribution2(O, A, ds, ws) ==
    IF mix2_check(O, A, ds, A[ws]) # "ok"
    THEN Outcome(O, A, Raise(mix2_check(O, A, ds, A[ws])))
    ELSE LET ops == O[ds[1]].base
             mix == mix2_working_copy(O, A, ds[1])
             p == mix.objs[mix.ret.id].pmf
             A1 == mix2_scale(ops, mix.arrs, p, mix.arrs[ws][1])
         IN  Outcome(mix.objs, mix2_accumulate(ops, mix.objs, A1, p, ds, ws, 2), mix.ret)

(***************************************************************************)
(* The mixing engine: a caller holding a list of distributions and a list  *)
(* of weights calls mixture_distribution or mixture_distribution2 once.    *)
(***************************************************************************)
Bases == {"linear", "log"}

\* The sample space of the mixed distributions, in sorted order.
MixSpace == <<"a", "b">>

\* The sorted outcome tuples over the sample space.
OutcomeTuples ==
    {SelectSeq(MixSpace, LAMBDA o : o \in S) : S \in (SUBSET Range(MixSpace)) \ {{}}}

\* The pmfs with n entries, each a multiple of 1/den, that sum to one.
Pmfs(n, den, base) ==
    {[i \in 1..n |-> Stored(base, Norm(m[i], den))] :
        m \in {c \in [1..n -> 0..den] : RSum([i \in 1..n |-> <<c[i], 1>>]) = <<den, 1>>}}

InputDists(base) ==
    UNION {{DistVal(o, p, base) : p \in Pmfs(Len(o), MassDen, base)} : o \in OutcomeTuples}

InputWeights(base) ==
    {Stored(base, Norm(k, WeightDen)) : k \in 0..WeightDen}

Idle ==
    [pc |-> "idle"]

InitMix ==
    \E base \in Bases, n \in 0..MaxDists, m \in 0..MaxDists :
        \E D \in [1..n -> InputDists(base)], W \in [1..m -> InputWeights(base)] :
            /\ objs = [i \in 1..n |-> [outcomes |-> D[i].outcomes, pmf |-> i, base |-> base]]
            /\ arrs = [i \in 1..(n + 1) |-> IF i <= n THEN D[i].pmf ELSE W]
            /\ args = [dists |-> [i \in 1..n |-> i], weights |-> n + 1, merge |-> FALSE]
            /\ ret = NoRet
            /\ pre = [objs |-> objs, arrs |-> arrs]
            /\ gen = Idle

\* The values of the distributions the caller passes.
ArgDists ==
    [i \in 1..Len(args.dists) |-> Deref(objs, arrs, args.dists[i])]

Called(out, name) ==
    /\ objs' = out.objs
    /\ arrs' = out.arrs
    /\ ret' = [out.ret EXCEPT !.call = name]

Mix ==
    /\ ret = NoRet
    /\ \E merge \in BOOLEAN, order \in Orders(mix_outcomes(ArgDists)) :
          /\ Called(mixture_distribution(objs, arrs, ArgDists, arrs[args.weights], merge,
                                         order), "mix")
          /\ args' = [args EXCEPT !.merge = merge]
    /\ UNCHANGED <<pre, gen>>

MixFast ==
    /\ ret = NoRet
    /\ Called(mixture_distribution2(objs, arrs, args.dists, args.weights), "mix_fast")
    /\ UNCHANGED <<args, pre, gen>>

NextMix ==
    \/ Mix
    \/ MixFast

SpecMix ==
    InitMix /\ [][NextMix]_vars

(***************************************************************************)
(* Properties of the mixing engine.                                        *)
(***************************************************************************)
\* The caller's distributions and weights as they were before the call.
PreDists ==
    [i \in 1..Len(args.dists) |-> Deref(pre.objs, pre.arrs, args.dists[i])]

PreWeights ==
    pre.arrs[args.weights]

\* The probability of outcome o under the distribution value d.
Mass(d, o) ==
    IF Contains(d, o) THEN Prob(d.base, GetItem(d, o)) ELSE RZero

\* The sum over i of weight_i * mass_i(o), as a probability.
ExpectedMass(o) ==
    RSum([i \in 1..Len(PreDists) |->
             RMul(Prob(PreDists[i].base, PreWeights[i]), Mass(PreDists[i], o))])

NoDuplicates(s) ==
    \A i, j \in 1..Len(s) : s[i] = s[j] => i = j

\* Two distribution values are equal: the same outcomes with the same masses
\* in the same base.
DistEq(d, e) ==
    /\ d.base = e.base
    /\ Range(d.outcomes) = Range(e.outcomes)
    /\ Len(d.outcomes) = Len(e.outcomes)
    /\ \A o \in Range(d.outcomes) : GetItem(d, o) = GetItem(e, o)

\* The weights are as many as the distributions, at least one, and a pmf.
ValidMixInput ==
    /\ PreDists # <<>>
    /\ Len(PreWeights) = Len(PreDists)
    /\ validate_pmf(PreWeights, PreDists[1].base) = "ok"

SharedOutcomeSet ==
    \A i \in 1..Len(PreDists) : Range(PreDists[i].outcomes) = Range(PreDists[1].outcomes)

\* The returned distribution is over the outcome set S with the expected
\* mass at every outcome.
ReturnsMixtureOver(S) ==
    /\ ret.kind = "ref"
    /\ LET m == Deref(objs, arrs, ret.id)
       IN  /\ m.base = PreDists[1].base
           /\ Range(m.outcomes) = S
           /\ NoDuplicates(m.outcomes)
           /\ \A o \in S : Prob(m.base, GetItem(m, o)) = ExpectedMass(o)

\* C1: for a non-empty list of distributions over one outcome set and valid
\* weights, mix without merge returns a distribution over that set whose mass
\* at o is the sum of weight_i * mass_i(o); its masses sum to one, and
\* mix([d], [1.0]) equals d.
C1_MixIsWeightedSum ==
    (ret.call = "mix" /\ ~args.merge /\ ValidMixInput /\ SharedOutcomeSet)
        => /\ ReturnsMixtureOver(Range(PreDists[1].outcomes))
           /\ LET m == Deref(objs, arrs, ret.id)
              IN  /\ RSum([k \in 1..Len(m.pmf) |-> Prob(m.base, m.pmf[k])]) = ROne
                  /\ Len(PreDists) = 1 => DistEq(m, PreDists[1])

\* Two different distributions over two outcomes mixed half and half in log
\* space.
C1_Witness ==
    /\ ret.call = "mix" /\ ~args.merge /\ ValidMixInput /\ SharedOutcomeSet
    /\ ret.kind = "ref"
    /\ Len(PreDists) = 2
    /\ PreDists[1].base = "log"
    /\ Len(PreDists[1].outcomes) = 2
    /\ PreDists[1].pmf # PreDists[2].pmf
    /\ Prob("log", PreWeights[1]) = <<1, 2>>

\* C2 (as claimed): with merge, in any base, mix returns a distribution over
\* the union of the outcome sets whose mass at o is the sum of
\* weight_i * mass_i(o) over the inputs that contain o.
C2_MergeIsWeightedSum ==
    (ret.call = "mix" /\ args.merge /\ ValidMixInput)
        => ReturnsMixtureOver(mix_outcomes(PreDists))

\* C3: with every input over the same outcomes in the same order, mix_fast
\* returns a distribution equal to the one mix returns, whatever the order
\* in which mix iterates the outcome set.
C3_MixFastEqualsMix ==
    (/\ ret.call = "mix_fast"
     /\ ValidMixInput
     /\ \A i \in 1..Len(PreDists) : PreDists[i].outcomes = PreDists[1].outcomes)
        => /\ ret.kind = "ref"
           /\ \A order \in Orders(mix_outcomes(PreDists)) :
                 LET slow == mixture_distribution(pre.objs, pre.arrs, PreDists, PreWeights,
                                                  FALSE, order)
                 IN  /\ slow.ret.kind = "ref"
                     /\ DistEq(Deref(objs, arrs, ret.id),
                               Deref(slow.objs, slow.arrs, slow.ret.id))

\* mix_fast of two different distributions over two outcomes with two
\* non-zero weights.
C3_Witness ==
    /\ ret.call = "mix_fast" /\ ret.kind = "ref"
    /\ Len(PreDists) = 2
    /\ PreDists[1].outcomes = PreDists[2].outcomes
    /\ Len(PreDists[1].outcomes) = 2
    /\ PreDists[1].pmf # PreDists[2].pmf
    /\ Prob(PreDists[1].base, PreWeights[1]) = <<1, 2>>

\* C4: when the number of distributions differs from the number of weights,
\* mix and mix_fast raise the length error, whatever else is wrong with the
\* input, and return no distribution.
C4_LengthCheckFirst ==
    (ret.kind # "none" /\ Len(args.dists) # Len(PreWeights))
        => /\ ret.kind = "error"
           /\ ret.err = "ditException"
           /\ Len(objs) = Len(pre.objs)

\* mix_fast with pmfs of different lengths and one weight that is no pmf.
C4_Witness ==
    /\ ret.call = "mix_fast"
    /\ Len(args.dists) = 2
    /\ Len(PreWeights) = 1
    /\ Len(PreDists[1].pmf) # Len(PreDists[2].pmf)
    /\ validate_pmf(PreWeights, PreDists[1].base) # "ok"
    /\ ret.err = "ditException"

\* C5: after mix_fast, successful or failing, every input distribution and
\* the weights are as they were; the returned distribution is a new object
\* with a pmf array of its own.
C5_MixFastKeepsInputs ==
    ret.call = "mix_fast"
        => /\ \A a \in 1..Len(pre.objs) : objs[a] = pre.objs[a]
           /\ \A a \in 1..Len(pre.arrs) : arrs[a] = pre.arrs[a]
           /\ ret.kind = "ref"
                 => /\ ret.id > Len(pre.objs)
                    /\ objs[ret.id].pmf > Len(pre.arrs)

\* A successful mix_fast whose result differs from dists[0].
C5_Witness ==
    /\ ret.call = "mix_fast" /\ ret.kind = "ref"
    /\ Len(args.dists) = 2
    /\ arrs[objs[ret.id].pmf] # pre.arrs[pre.objs[args.dists[1]].pmf]

(***************************************************************************)
(* Python values handed to the constructors.  A symbol is an integer or a  *)
(* one-character string; `n` and `alphabet_size` are an int or a sequence. *)
(***************************************************************************)
IntSym(i) ==
    [t |-> "int", i |-> i, s |-> ""]

StrSym(c) ==
    [t |-> "str", i |-> 0, s |-> c]

PyInt(i) ==
    [type |-> "int", i |-> i, v |-> <<>>]

PySeq(v) ==
    [type |-> "seq", i |-> 0, v |-> v]

PyNone ==
    [type |-> "None", i |-> 0, v |-> <<>>]

\* tuple(range(n))
range(n) ==
    [i \in 1..n |-> IntSym(i - 1)]

\* [x] * n
Repeat(x, n) ==
    [i \in 1..n |-> x]

\* The pmfs prng.dirichlet may draw for k concentration parameters: points
\* inside the simplex, the middle one and one leaning to each outcome.
Dirichlet(k) ==
    {Repeat(Real(Norm(1, k)), k)}
        \cup {[i \in 1..k |-> Real(Norm(IF i = j THEN 2 ELSE 1, k + 1))] : j \in 1..k}

(***************************************************************************)
(* uniform_scalar_distribution(n)                                          *)
(***************************************************************************)
uniform_scalar_distribution(O, A, n) ==
    LET nOutcomes == IF n.type = "seq" THEN Len(n.v) ELSE n.i
        outcomes == IF n.type = "seq" THEN n.v ELSE range(n.i)
    IN  IF nOutcomes = 0 THEN Outcome(O, A, Raise("ZeroDivisionError"))
        ELSE NewDist(O, A, Distribution(outcomes,
                                        Repeat(Real(Norm(1, nOutcomes)), nOutcomes),
                                        "linear"))

(***************************************************************************)
(* random_scalar_distribution(n, alpha, prng)                              *)
(***************************************************************************)
\* d.pmf = pmf: the attribute is bound to the array drawn.
SetPmf(out, pmf) ==
    Outcome([out.objs EXCEPT ![out.ret.id].pmf = Len(out.arrs) + 1],
            Append(out.arrs, pmf),
            out.ret)

\* What is handed to uniform_scalar_distribution: nOutcomes.
random_scalar_count(n) ==
    PyInt(IF n.type = "seq" THEN Len(n.v) ELSE n.i)

\* draw: the pmf the random source draws for the concentration parameters.
random_scalar_distribution(O, A, n, alpha, draw) ==
    LET nOutcomes == random_scalar_count(n).i
        d == uniform_scalar_distribution(O, A, random_scalar_count(n))
    IN  IF d.ret.kind = "error" THEN d
        ELSE IF alpha.type # "None" /\ Len(alpha.v) # nOutcomes
        THEN Outcome(O, A, Raise("ditException"))
        ELSE SetPmf(d, draw)

(***************************************************************************)
(* uniform_distribution(outcome_length, alphabet_size)                     *)
(***************************************************************************)
\* The alphabet of every position, or the error raised.
uniform_alphabet(outcome_length, alphabet_size) ==
    IF alphabet_size.type = "int"
    THEN PySeq(Repeat(range(alphabet_size.i), outcome_length))
    ELSE IF Len(alphabet_size.v) = 1
    THEN PySeq(Repeat(alphabet_size.v[1], outcome_length))
    ELSE IF Len(alphabet_size.v) # outcome_length
    THEN [type |-> "TypeError", i |-> 0, v |-> <<>>]
    ELSE alphabet_size

\* np.prod(list(map(len, alphabet)))
RECURSIVE uniform_Z(_)
uniform_Z(alphabet) ==
    IF alphabet = <<>> THEN 1 ELSE Len(alphabet[1]) * uniform_Z(Tail(alphabet))

RECURSIVE Concat(_)
Concat(ss) ==
    IF ss = <<>> THEN <<>> ELSE ss[1] \o Concat(Tail(ss))

\* A slip: the product with the leftmost position varying fastest.
RECURSIVE product_leftmost_fastest(_)
product_leftmost_fastest(alphabet) ==
    IF alphabet = <<>> THEN << <<>> >>
    ELSE LET n == Len(alphabet)
             rest == product_leftmost_fastest(SubSeq(alphabet, 1, n - 1))
         IN  Concat([i \in 1..Len(alphabet[n]) |->
                        [j \in 1..Len(rest) |-> Append(rest[j], alphabet[n][i])]])

\* tuple(itertools.product(*alphabet))
RECURSIVE product(_)
product(alphabet) ==
    IF alphabet = <<>> THEN << <<>> >>
    ELSE LET rest == product(Tail(alphabet))
         IN  Concat([i \in 1..Len(alphabet[1]) |->
                        [j \in 1..Len(rest) |-> <<alphabet[1][i]>> \o rest[j]]])

uniform_distribution(O, A, outcome_length, alphabet_size) ==
    LET alphabet == uniform_alphabet(outcome_length, alphabet_size)
        Z == uniform_Z(alphabet.v)
    IN  IF alphabet.type = "TypeError" THEN Outcome(O, A, Raise("TypeError"))
        ELSE NewDist(O, A, Distribution(product(alphabet.v), Repeat(Real(Norm(1, Z)), Z),
                                        "linear"))

(***************************************************************************)
(* random_distribution(outcome_length, alphabet_size, alpha, prng)         *)
(***************************************************************************)
random_distribution(O, A, outcome_length, alphabet_size, alpha, draw) ==
    LET d == uniform_distribution(O, A, outcome_length, alphabet_size)
    IN  IF d.ret.kind = "error" THEN d
        ELSE LET n == Len(d.arrs[d.objs[d.ret.id].pmf])
             IN  IF alpha.type # "None" /\ Len(alpha.v) # n
                 THEN Outcome(O, A, Raise("ditException"))
                 ELSE SetPmf(d, draw)

(***************************************************************************)
(* The generative constructors: a caller calls one of them once.           *)
(***************************************************************************)
Symbols == {StrSym("H"), StrSym("T"), StrSym("X")}

\* The non-empty sequences of distinct symbols.
SymbolSeqs ==
    UNION {Orders(S) : S \in (SUBSET Symbols) \ {{}}}

\* `n`: a count or explicit outcomes.
CountArgs ==
    {PyInt(k) : k \in 0..MaxCount} \cup {PySeq(q) : q \in SymbolSeqs}

\* `alphabet_size`: a size or a list of alphabets.
AlphabetArgs ==
    {PyInt(k) : k \in 1..MaxCount}
        \cup {PySeq(q) : q \in UNION {[1..l -> SymbolSeqs] : l \in 1..MaxLength}}

\* `alpha`: None or concentration parameters, all of them 1 here.
AlphaArgs(longest) ==
    {PyNone} \cup {PySeq(Repeat(1, l)) : l \in 1..longest}

InitCtor ==
    /\ objs = <<>>
    /\ arrs = <<>>
    /\ args = [n |-> PyNone, outcome_length |-> 0, alphabet_size |-> PyNone,
               alpha |-> PyNone]
    /\ ret = NoRet
    /\ pre = [objs |-> <<>>, arrs |-> <<>>]
    /\ gen = Idle

UniformScalar ==
    /\ ret = NoRet
    /\ \E n \in CountArgs :
          /\ Called(uniform_scalar_distribution(objs, arrs, n), "uniform_scalar")
          /\ args' = [args EXCEPT !.n = n]
    /\ UNCHANGED <<pre, gen>>

RandomScalar ==
    /\ ret = NoRet
    /\ \E n \in CountArgs, alpha \in AlphaArgs(MaxCount) :
       \E draw \in Dirichlet(random_scalar_count(n).i) :
          /\ Called(random_scalar_distribution(objs, arrs, n, alpha, draw), "random_scalar")
          /\ args' = [args EXCEPT !.n = n, !.alpha = alpha]
    /\ UNCHANGED <<pre, gen>>

Uniform ==
    /\ ret = NoRet
    /\ \E k \in 1..MaxLength, a \in AlphabetArgs :
          /\ Called(uniform_distribution(objs, arrs, k, a), "uniform")
          /\ args' = [args EXCEPT !.outcome_length = k, !.alphabet_size = a]
    /\ UNCHANGED <<pre, gen>>

Random ==
    /\ ret = NoRet
    /\ \E k \in 1..MaxLength, a \in {PyInt(m) : m \in 1..MaxCount},
          alpha \in AlphaArgs(MaxCount ^ MaxLength) :
       \E draw \in Dirichlet(a.i ^ k) :
          /\ Called(random_distribution(objs, arrs, k, a, alpha, draw), "random")
          /\ args' = [args EXCEPT !.outcome_length = k, !.alphabet_size = a,
                                  !.alpha = alpha]
    /\ UNCHANGED <<pre, gen>>

NextCtor ==
    \/ UniformScalar
    \/ RandomScalar
    \/ Uniform
    \/ Random

SpecCtor ==
    InitCtor /\ [][NextCtor]_vars

(***************************************************************************)
(* Properties of the generative constructors.                              *)
(***************************************************************************)
\* C6 (as claimed): random_scalar(n) returns a distribution over the given
\* symbols when n is a sequence of symbols and over 0..n-1 when n is an
\* integer, with one pmf entry for each outcome.
C6_RandomScalarKeepsOutcomes ==
    (ret.call = "random_scalar" /\ ret.kind = "ref")
        => LET d == Deref(objs, arrs, ret.id)
           IN  /\ d.outcomes = IF args.n.type = "seq" THEN args.n.v ELSE range(args.n.i)
               /\ Len(d.pmf) = Len(d.outcomes)

\* The alphabet of position j as the arguments of uniform describe it.
PositionAlphabet(j) ==
    IF args.alphabet_size.type = "int" THEN range(args.alphabet_size.i)
    ELSE IF Len(args.alphabet_size.v) = 1 THEN args.alphabet_size.v[1]
    ELSE args.alphabet_size.v[j]

\* The number of outcomes between two changes of position j: the product of
\* the sizes of the alphabets to its right.
RECURSIVE Stride(_, _)
Stride(sizes, j) ==
    IF j >= Len(sizes) THEN 1 ELSE sizes[j + 1] * Stride(sizes, j + 1)

\* C8: uniform(k, alphabet) returns the Cartesian product of the alphabets
\* of the k positions, the rightmost position varying fastest, each of the Z
\* outcomes of mass 1/Z, Z the product of the alphabet sizes (m^k for an
\* integer m); a list of alphabets whose length is neither 1 nor k raises
\* the arity error and nothing is returned.
C8_UniformIsProduct ==
    ret.call = "uniform"
        => LET k == args.outcome_length
               a == args.alphabet_size
           IN  IF a.type = "seq" /\ Len(a.v) \notin {1, k}
               THEN ret.kind = "error" /\ ret.err = "TypeError" /\ objs = <<>>
               ELSE /\ ret.kind = "ref"
                    /\ LET d == Deref(objs, arrs, ret.id)
                           sizes == [j \in 1..k |-> Len(PositionAlphabet(j))]
                           Z == Stride(sizes, 0)
                       IN  /\ d.base = "linear"
                           /\ Len(d.outcomes) = Z
                           /\ Len(d.pmf) = Z
                           /\ a.type = "int" => Z = a.i ^ k
                           /\ \A i \in 0..(Z - 1) :
                                 /\ d.pmf[i + 1] = Real(Norm(1, Z))
                                 /\ Len(d.outcomes[i + 1]) = k
                                 /\ \A j \in 1..k :
                                       d.outcomes[i + 1][j] =
                                           PositionAlphabet(j)[((i \div Stride(sizes, j))
                                                                 % sizes[j]) + 1]

\* uniform over two positions with alphabets of different sizes.
C8_Witness ==
    /\ ret.call = "uniform" /\ ret.kind = "ref"
    /\ args.outcome_length = 2
    /\ args.alphabet_size.type = "seq"
    /\ Len(args.alphabet_size.v) = 2
    /\ Len(args.alphabet_size.v[1]) = 2
    /\ Len(args.alphabet_size.v[2]) = 3
    /\ Len(objs[ret.id].outcomes) = 6

(***************************************************************************)
(* simplex_grid(length, depth, base, using, inplace)                       *)
(***************************************************************************)
\* The compositions of total into `parts` non-negative parts, in the order
\* the combinatorial generator yields them.
RECURSIVE compositions(_, _)
compositions(total, parts) ==
    IF parts = 1 THEN << <<total>> >>
    ELSE Concat([f \in 1..(total + 1) |->
                    LET rest == compositions(total - (f - 1), parts - 1)
                    IN  [j \in 1..Len(rest) |-> <<f - 1>> \o rest[j]]])

\* slots(total, parts, normalized=True)
slots(total, parts) ==
    LET c == compositions(total, parts)
    IN  [i \in 1..Len(c) |-> [k \in 1..parts |-> Real(Norm(c[i][k], total))]]

\* The value of `using`: None, the tuple type, or a distribution object.
UsingNone ==
    [type |-> "None", id |-> 0]

UsingTuple ==
    [type |-> "tuple", id |-> 0]

UsingDist(a) ==
    [type |-> "dist", id |-> a]

\* The frame of the generator: where it stands, its arguments and locals,
\* and what it has yielded to the caller so far.
Frame(pc, length, total, using, inplace, next, yielded) ==
    [pc |-> pc, length |-> length, total |-> total, using |-> using,
     inplace |-> inplace, next |-> next, yielded |-> yielded]

\* What a step of the generator leaves behind: the heap and the frame.
Step(O, A, g) ==
    [objs |-> O, arrs |-> A, gen |-> g]

\* Lines 310-314: the distribution the grid points are written to or copied
\* from, or the exception raised.
grid_using(O, A, g, draw) ==
    IF g.using.type = "None"
    THEN random_scalar_distribution(O, A, PyInt(g.length), PyNone, draw)
    ELSE IF g.length # Len(A[O[g.using.id].pmf])
    THEN Outcome(O, A, Raise("Exception"))
    ELSE Outcome(O, A, Ref(g.using.id))

\* d = using
grid_same(O, A, u) ==
    Outcome(O, A, Ref(u))

\* A slip: the distribution yielded is `using` itself.
grid_alias(O, A, u) ==
    Outcome(O, A, Ref(u))

\* d = using.copy()
grid_copy(O, A, u) ==
    copy(O, A, u)

\* d.pmf[:] = pmf
grid_write(O, A, d, pmf) ==
    [A EXCEPT ![O[d].pmf] = [k \in 1..Len(@) |-> pmf[k]]]

\* A slip: the vector is yielded with its components in reverse.
grid_tuple_reversed(pmf) ==
    [k \in 1..Len(pmf) |-> pmf[Len(pmf) + 1 - k]]

\* using == tuple: `yield pmf`, the generator's item as it is.
grid_tuple(pmf) ==
    pmf

\* One turn of the loop `for pmf in gen`, up to the yield or the end.
grid_loop(O, A, g) ==
    LET points == slots(g.total, g.length)
    IN  IF g.next > Len(points) THEN Step(O, A, [g EXCEPT !.pc = "done"])
        ELSE LET pmf == points[g.next]
                 g2 == [g EXCEPT !.pc = "loop", !.next = @ + 1]
             IN  IF g.using.type = "tuple"
                 THEN Step(O, A, [g2 EXCEPT !.yielded =
                                     Append(@, [id |-> 0, pmf |-> grid_tuple(pmf)])])
                 ELSE LET d == IF g.inplace THEN grid_same(O, A, g.using.id)
                                            ELSE grid_copy(O, A, g.using.id)
                      IN  Step(d.objs, grid_write(d.objs, d.arrs, d.ret.id, pmf),
                               [g2 EXCEPT !.yielded =
                                   Append(@, [id |-> d.ret.id, pmf |-> pmf])])

\* next(generator): from the start of the body, or from the last yield, to
\* the next yield, the end or an exception.
simplex_grid_next(O, A, g, draw) ==
    IF g.pc = "loop" \/ g.using.type = "tuple" THEN grid_loop(O, A, g)
    ELSE LET u == grid_using(O, A, g, draw)
         IN  IF u.ret.kind = "error" THEN Step(O, A, [g EXCEPT !.pc = "raised"])
             ELSE grid_loop(u.objs, u.arrs, [g EXCEPT !.using = UsingDist(u.ret.id)])

(***************************************************************************)
(* The grid: a caller that may hold a template distribution calls          *)
(* simplex_grid and draws from the generator, keeping what it yields; when  *)
(* it asked for tuples it may drop the generator and call again.           *)
(***************************************************************************)
\* The template distributions a caller may hold.
Templates ==
    UNION {{DistVal(range(n), p, "linear") : p \in Dirichlet(n)} : n \in 1..MaxGridLength}

GridBases == {2, 3}

InitGrid ==
    /\ \/ objs = <<>> /\ arrs = <<>>
       \/ \E t \in Templates :
             /\ objs = <<[outcomes |-> t.outcomes, pmf |-> 1, base |-> t.base]>>
             /\ arrs = <<t.pmf>>
    /\ args = [length |-> 0, depth |-> 0, base |-> 0, using |-> UsingNone, inplace |-> FALSE,
               call |-> 0]
    /\ ret = NoRet
    /\ pre = [objs |-> objs, arrs |-> arrs]
    /\ gen = Idle

\* simplex_grid(...): the generator is created; its body has not started.
GridCall ==
    /\ gen = Idle
    /\ \E length \in 1..MaxGridLength, depth \in 0..MaxDepth, base \in GridBases,
          using \in {UsingNone, UsingTuple} \cup {UsingDist(a) : a \in 1..Len(objs)},
          inplace \in BOOLEAN :
          /\ base ^ depth <= MaxTotal
          /\ args' = [length |-> length, depth |-> depth, base |-> base, using |-> using,
                      inplace |-> inplace, call |-> 1]
          /\ gen' = Frame("start", length, base ^ depth, using, inplace, 1, <<>>)
    /\ UNCHANGED <<objs, arrs, ret, pre>>

\* simplex_grid(...) once more with the same arguments, at any point of the
\* previous enumeration: a new generator, and the tuples kept from the old
\* one are dropped.
GridAgain ==
    /\ gen # Idle
    /\ args.using = UsingTuple
    /\ args.call < MaxCalls
    /\ args' = [args EXCEPT !.call = @ + 1]
    /\ gen' = Frame("start", args.length, args.base ^ args.depth, args.using, args.inplace,
                    1, <<>>)
    /\ UNCHANGED <<objs, arrs, ret, pre>>

GridNext ==
    /\ gen # Idle
    /\ gen.pc \in {"start", "loop"}
    /\ \E draw \in Dirichlet(gen.length) :
          LET step == simplex_grid_next(objs, arrs, gen, draw)
          IN  /\ objs' = step.objs
              /\ arrs' = step.arrs
              /\ gen' = step.gen
    /\ UNCHANGED <<args, ret, pre>>

NextGrid ==
    \/ GridCall
    \/ GridAgain
    \/ GridNext

SpecGrid ==
    InitGrid /\ [][NextGrid]_vars

(***************************************************************************)
(* Properties of the grid.                                                 *)
(***************************************************************************)
\* C7: with inplace every yielded distribution is one object, the caller's
\* template when one is given, and holds the latest grid point; without
\* inplace the yielded distributions are distinct objects with pmf arrays of
\* their own, none of them the template or sharing its array, each still
\* holds the grid point it was yielded with, and the template is unchanged.
C7_InPlaceDecidesAliasing ==
    (gen # Idle /\ args.using.type # "tuple" /\ gen.pc \in {"loop", "done"})
        => LET y == gen.yielded
               n == Len(y)
               points == slots(args.base ^ args.depth, args.length)
           IN  /\ \A i \in 1..n : y[i].pmf = points[i]
               /\ IF args.inplace
                  THEN /\ \A i \in 1..n : y[i].id = y[1].id
                       /\ args.using.type = "dist" => \A i \in 1..n : y[i].id = args.using.id
                       /\ n > 0 => arrs[objs[y[1].id].pmf] = points[n]
                  ELSE /\ \A i, j \in 1..n :
                             i # j => /\ y[i].id # y[j].id
                                      /\ objs[y[i].id].pmf # objs[y[j].id].pmf
                       /\ \A i \in 1..n :
                             /\ arrs[objs[y[i].id].pmf] = points[i]
                             /\ y[i].id # gen.using.id
                             /\ objs[y[i].id].pmf # objs[gen.using.id].pmf
                       /\ args.using.type = "dist"
                             => /\ objs[args.using.id] = pre.objs[args.using.id]
                                /\ arrs[objs[args.using.id].pmf]
                                      = pre.arrs[pre.objs[args.using.id].pmf]

\* Three distributions yielded as copies of a template that is itself no
\* grid point.
C7_Witness ==
    /\ gen # Idle
    /\ args.using.type = "dist"
    /\ ~args.inplace
    /\ Len(gen.yielded) >= 3
    /\ \A i \in 1..Len(gen.yielded) : arrs[objs[args.using.id].pmf] # gen.yielded[i].pmf

\* Three grid points yielded in place into the caller's template.
C7_WitnessInPlace ==
    /\ gen # Idle
    /\ args.using.type = "dist"
    /\ args.inplace
    /\ Len(gen.yielded) >= 3
    /\ gen.yielded[1].pmf # arrs[objs[args.using.id].pmf]

\* The binomial coefficient C(n, k).
RECURSIVE Binomial(_, _)
Binomial(n, k) ==
    IF k < 0 \/ k > n THEN 0
    ELSE IF k = 0 \/ k = n THEN 1
    ELSE Binomial(n - 1, k - 1) + Binomial(n - 1, k)

\* The vectors of `length` non-negative integers that sum to total, each
\* divided by total.
GridPoints(total, length) ==
    {[k \in 1..length |-> Real(Norm(c[k], total))] :
        c \in {c \in [1..length -> 0..total] :
                  RSum([k \in 1..length |-> <<c[k], 1>>]) = <<total, 1>>}}

\* list(simplex_grid(2, 2, using=tuple)) of the docstring.
GridExample ==
    <<<<Real(<<0, 1>>), Real(<<1, 1>>)>>,
      <<Real(<<1, 4>>), Real(<<3, 4>>)>>,
      <<Real(<<1, 2>>), Real(<<1, 2>>)>>,
      <<Real(<<3, 4>>), Real(<<1, 4>>)>>,
      <<Real(<<1, 1>>), Real(<<0, 1>>)>>>>

\* C11: with using=tuple the generator yields plain tuples, the items of the
\* combinatorial generator in its order and unaltered, each summing to 1; a
\* generator that has not been drawn from has yielded nothing, also on a
\* later call; it never raises; and when it is exhausted it has yielded each
\* normalized composition of base ** depth into `length` parts exactly once,
\* C(base ** depth + length - 1, length - 1) of them, and for length 2,
\* depth 2, base 2 the five vectors of the docstring in that order.
C11_TupleGridEnumerates ==
    (gen # Idle /\ args.using = UsingTuple)
        => LET total == args.base ^ args.depth
               y == gen.yielded
               n == Len(y)
               order == slots(total, args.length)
           IN  /\ gen.pc # "raised"
               /\ gen.pc = "start" => n = 0
               /\ n <= Len(order)
               /\ \A i \in 1..n :
                     /\ y[i].id = 0
                     /\ y[i].pmf = order[i]
                     /\ RSum([k \in 1..args.length |-> y[i].pmf[k].r]) = ROne
               /\ gen.pc = "done"
                     => /\ n = Binomial(total + args.length - 1, args.length - 1)
                        /\ {y[i].pmf : i \in 1..n} = GridPoints(total, args.length)
                        /\ \A i, j \in 1..n : i # j => y[i].pmf # y[j].pmf
                        /\ (args.length = 2 /\ args.depth = 2 /\ args.base = 2)
                              => [i \in 1..n |-> y[i].pmf] = GridExample

\* The second call of simplex_grid(2, 2, 2, using=tuple) has been drawn to
\* exhaustion and has yielded five tuples.
C11_Witness ==
    /\ gen # Idle
    /\ args.using = UsingTuple
    /\ args.call = 2
    /\ args.length = 2 /\ args.depth = 2 /\ args.base = 2
    /\ gen.pc = "done"
    /\ Len(gen.yielded) = 5

(***************************************************************************)
(* Python values of outcomes and outcome fragments: an int, a str (its     *)
(* characters) or a tuple (its items).                                     *)
(***************************************************************************)
PInt(i) ==
    [cls |-> "int", i |-> i, chars |-> <<>>, items |-> <<>>]

PStr(c) ==
    [cls |-> "str", i |-> 0, chars |-> c, items |-> <<>>]

PTuple(t) ==
    [cls |-> "tuple", i |-> 0, chars |-> <<>>, items |-> t]

\* The result of evaluating an expression: a value or an exception.
Ok(v) ==
    [err |-> "", val |-> v]

Fail(e) ==
    [err |-> e, val |-> PInt(0)]

\* len(v)
py_len(v) ==
    IF v.cls = "str" THEN Len(v.chars) ELSE Len(v.items)

\* list(v): the elements of a str or a tuple
py_iter(v) ==
    IF v.cls = "str" THEN [k \in 1..Len(v.chars) |-> PStr(<<v.chars[k]>>)] ELSE v.items

\* v[i], i counted from 0
py_index(v, i) ==
    py_iter(v)[i + 1]

\* a + b
py_add(a, b) ==
    IF a.cls = "str" /\ b.cls = "str" THEN Ok(PStr(a.chars \o b.chars))
    ELSE IF a.cls = "tuple" /\ b.cls = "tuple" THEN Ok(PTuple(a.items \o b.items))
    ELSE Fail("TypeError")

\* The first exception among the results, or "" when there is none.
RECURSIVE FirstErr(_)
FirstErr(rs) ==
    IF rs = <<>> THEN ""
    ELSE IF rs[1].err # "" THEN rs[1].err
    ELSE FirstErr(Tail(rs))

\* d._outcome_ctor(items): ''.join for str outcomes, tuple for tuple
\* outcomes.
outcome_ctor(cls, items) ==
    IF cls = "str"
    THEN IF \A k \in 1..Len(items) : items[k].cls = "str"
         THEN Ok(PStr(Concat([k \in 1..Len(items) |-> items[k].chars])))
         ELSE Fail("TypeError")
    ELSE Ok(PTuple(items))

\* d._outcome_ctor(v) for a value v that has to be iterated
outcome_ctor_of(cls, v) ==
    IF v.cls = "int" THEN Fail("TypeError") ELSE outcome_ctor(cls, py_iter(v))

(***************************************************************************)
(* RVFunctions: the builder and the callables it returns.  A callable is   *)
(* the closure it is: which function body, and the variables it closes     *)
(* over.                                                                   *)
(***************************************************************************)
\* RVFunctions.__init__(d)
RVFunctions(d) ==
    [is_int |-> d.outcomes[1].cls # "str",
     L |-> py_len(d.outcomes[1]),
     cls |-> d.outcomes[1].cls]

Callable(kind, is_int, i, j, mapping, outcomes) ==
    [kind |-> kind, is_int |-> is_int, i |-> i, j |-> j, mapping |-> mapping,
     outcomes |-> outcomes]

\* A dict as the list of its items in insertion order.
Item(k, v) ==
    [key |-> k, val |-> v]

\* mapping[key] = val
dict_set(m, key, val) ==
    IF \E n \in 1..Len(m) : m[n].key = key
    THEN [n \in 1..Len(m) |-> IF m[n].key = key THEN Item(key, val) ELSE m[n]]
    ELSE Append(m, Item(key, val))

\* mapping[key]
dict_get(m, key) ==
    IF \E n \in 1..Len(m) : m[n].key = key
    THEN Ok(m[CHOOSE n \in 1..Len(m) : m[n].key = key].val)
    ELSE Fail("KeyError")

\* int(result) for a bool
BoolInt(b) ==
    IF b THEN 1 ELSE 0

\* str(i) for a digit
DigitStr(i) ==
    <<"0", "1", "2", "3", "4", "5", "6", "7", "8", "9">>[i + 1]

\* RVFunctions.xor(indices)
rvf_xor(bf, indices) ==
    Callable("xor", bf.is_int, indices[1], indices[2], <<>>, {})

\* RVFunctions.from_mapping(mapping, force)
rvf_from_mapping(bf, mapping, force) ==
    LET checked == [n \in 1..Len(mapping) |-> outcome_ctor_of(bf.cls, mapping[n].val)]
        forced == [n \in 1..Len(mapping) |->
                      Item(mapping[n].key, outcome_ctor(bf.cls, <<mapping[n].val>>).val)]
    IN  IF force /\ FirstErr(checked) # ""
        THEN IF FirstErr([n \in 1..Len(mapping) |->
                            outcome_ctor(bf.cls, <<mapping[n].val>>)]) # ""
             THEN Fail("TypeError")
             ELSE Ok(Callable("mapping", bf.is_int, 0, 0, forced, {}))
        ELSE Ok(Callable("mapping", bf.is_int, 0, 0, mapping, {}))

\* '0123456789' + letters + letters.upper()
alphabet ==
    <<"0", "1", "2", "3", "4", "5", "6", "7", "8", "9",
      "a", "b", "c", "d", "e", "f", "g", "h", "i", "j", "k", "l", "m",
      "n", "o", "p", "q", "r", "s", "t", "u", "v", "w", "x", "y", "z",
      "A", "B", "C", "D", "E", "F", "G", "H", "I", "J", "K", "L", "M",
      "N", "O", "P", "Q", "R", "S", "T", "U", "V", "W", "X", "Y", "Z">>

\* vals[i], i counted from 0
partition_val(bf, i) ==
    IF bf.cls = "str" THEN PStr(<<alphabet[i + 1]>>) ELSE PInt(i)

\* The key under which from_partition files an outcome:
\* self.ctor([outcome])
partition_key(bf, outcome) ==
    outcome_ctor(bf.cls, <<outcome>>)

\* The pairs (i, outcome) in the order of the two loops.
partition_pairs(partition) ==
    Concat([i \in 1..Len(partition) |->
               [k \in 1..Len(partition[i]) |-> [i |-> i - 1, outcome |-> partition[i][k]]]])

\* The loops filling `mapping`, from the n-th pair on.
RECURSIVE partition_fill(_, _, _, _)
partition_fill(bf, pairs, n, mapping) ==
    IF n > Len(pairs) THEN Ok(mapping)
    ELSE LET key == partition_key(bf, pairs[n].outcome)
         IN  IF key.err # "" THEN Fail(key.err)
             ELSE partition_fill(bf, pairs, n + 1,
                                 dict_set(mapping, key.val, partition_val(bf, pairs[n].i)))

\* RVFunctions.from_partition(partition)
rvf_from_partition(bf, partition) ==
    IF bf.cls = "str" /\ Len(partition) > Len(alphabet) THEN Fail("NotImplementedError")
    ELSE LET mapping == partition_fill(bf, partition_pairs(partition), 1, <<>>)
         IN  IF mapping.err # "" THEN Fail(mapping.err)
             ELSE rvf_from_mapping(bf, mapping.val, TRUE)

\* int(h, 16) for a hex digit h, upper or lower case
HexValue(h) ==
    (CHOOSE n \in 1..16 :
        h \in {SubSeq(alphabet, 1, 16)[n], (SubSeq(alphabet, 1, 10) \o SubSeq(alphabet, 37, 42))[n]})
       - 1

\* The binary digits of n, the most significant first.
RECURSIVE Bits(_)
Bits(n) ==
    IF n < 2 THEN <<n>> ELSE Bits(n \div 2) \o <<n % 2>>

\* A slip: the binary digits without the padding.
format_b_unpadded(n, width) ==
    [k \in 1..Len(Bits(n)) |-> DigitStr(Bits(n)[k])]

\* "{0:0{1}b}".format(n, width): the binary digits of n, padded on the left
\* with '0' to at least `width` characters.
format_b(n, width) ==
    LET bits == Bits(n)
        pad == IF width > Len(bits) THEN width - Len(bits) ELSE 0
    IN  [k \in 1..pad |-> "0"] \o [k \in 1..Len(bits) |-> DigitStr(bits[k])]

\* int(c) for a character '0' or '1'
BitInt(c) ==
    IF c = "1" THEN 1 ELSE 0

\* RVFunctions.from_hexes(hexes): hexes is the sequence of its characters.
rvf_from_hexes(bf, hexes) ==
    LET strs == [n \in 1..Len(hexes) |-> format_b(HexValue(hexes[n]), bf.L)]
        outcomes == IF bf.is_int
                    THEN {PTuple([k \in 1..Len(strs[n]) |-> PInt(BitInt(strs[n][k]))]) :
                             n \in 1..Len(strs)}
                    ELSE {PStr(strs[n]) : n \in 1..Len(strs)}
    IN  Callable("hexes", bf.is_int, 0, 0, <<>>, outcomes)

\* func(outcome) for a callable the builder returned
call(f, outcome) ==
    IF f.kind = "xor"
    THEN LET result == BoolInt(py_index(outcome, f.i) # py_index(outcome, f.j))
         IN  IF f.is_int THEN Ok(PTuple(<<PInt(result)>>))
             ELSE Ok(PStr(<<DigitStr(result)>>))
    ELSE IF f.kind = "hexes"
    THEN LET result == BoolInt(outcome \in f.outcomes)
         IN  IF f.is_int THEN Ok(PTuple(<<PInt(result)>>))
             ELSE Ok(PStr(<<DigitStr(result)>>))
    ELSE dict_get(f.mapping, outcome)

(***************************************************************************)
(* insert_rvf(d, func, index)                                              *)
(***************************************************************************)
\* func: a single callable or a list of callables.
OneFunc(f) ==
    [single |-> TRUE, fs |-> <<f>>]

FuncList(fs) ==
    [single |-> FALSE, fs |-> fs]

\* Lines 456-461: funcs, or the exception of func[0].
rvf_funcs(func) ==
    IF func.single THEN Ok(func.fs)
    ELSE IF func.fs = <<>> THEN Fail("IndexError")
    ELSE Ok(func.fs)

\* A slip: the fragments are gathered in the reverse order of the functions.
rvf_partial_outcome_reversed(cls, funcs, outcome) ==
    LET frags == [m \in 1..Len(funcs) |-> call(funcs[Len(funcs) + 1 - m], outcome)]
    IN  IF FirstErr(frags) # "" THEN Fail(FirstErr(frags))
        ELSE IF \E m \in 1..Len(frags) : frags[m].val.cls = "int" THEN Fail("TypeError")
        ELSE outcome_ctor(cls, Concat([m \in 1..Len(frags) |-> py_iter(frags[m].val)]))

\* Lines 464-469 for one outcome: every function is called on the outcome,
\* the elements of the fragments are gathered in the order of the functions,
\* and the outcome constructor makes the new part of them.
rvf_partial_outcome(cls, funcs, outcome) ==
    LET frags == [m \in 1..Len(funcs) |-> call(funcs[m], outcome)]
    IN  IF FirstErr(frags) # "" THEN Fail(FirstErr(frags))
        ELSE IF \E m \in 1..Len(frags) : frags[m].val.cls = "int" THEN Fail("TypeError")
        ELSE outcome_ctor(cls, Concat([m \in 1..Len(frags) |-> py_iter(frags[m].val)]))

\* A slip: the new distribution is built on d's own pmf array.
rvf_pmf_shared(O, A, d) ==
    [arrs |-> A, pmf |-> O[d].pmf]

\* d.pmf.copy(): the heap with the new array, and its address.
rvf_pmf(O, A, d) ==
    [arrs |-> Append(A, A[O[d].pmf]), pmf |-> Len(A) + 1]

\* d: the heap address of the distribution.  `index` is not read.
insert_rvf(O, A, d, func, index) ==
    LET funcs == rvf_funcs(func)
        old == O[d].outcomes
        cls == old[1].cls
        partial == [k \in 1..Len(old) |-> rvf_partial_outcome(cls, funcs.val, old[k])]
        outcomes == [k \in 1..Len(old) |-> py_add(old[k], partial[k].val)]
        pmf == rvf_pmf(O, A, d)
    IN  IF funcs.err # "" THEN Outcome(O, A, Raise(funcs.err))
        ELSE IF FirstErr(partial) # "" THEN Outcome(O, A, Raise(FirstErr(partial)))
        ELSE IF FirstErr(outcomes) # "" THEN Outcome(O, A, Raise(FirstErr(outcomes)))
        ELSE Outcome(Append(O, [outcomes |-> [k \in 1..Len(old) |-> outcomes[k].val],
                                pmf |-> pmf.pmf,
                                base |-> O[d].base]),
                     pmf.arrs,
                     Ref(Len(O) + 1))

(***************************************************************************)
(* The random-variable functions: a caller holding a distribution over     *)
(* bits builds functions with RVFunctions(d) and calls insert_rvf once.    *)
(***************************************************************************)
\* The outcome with the given bits.
BitOutcome(cls, bits) ==
    IF cls = "str" THEN PStr([k \in 1..Len(bits) |-> DigitStr(bits[k])])
    ELSE PTuple([k \in 1..Len(bits) |-> PInt(bits[k])])

\* All outcomes of L bits, sorted.
Cube(cls, L) ==
    LET bits == product(Repeat(<<0, 1>>, L))
    IN  [k \in 1..Len(bits) |-> BitOutcome(cls, bits[k])]

\* The sequence without its k-th element.
Without(q, k) ==
    [n \in 1..(Len(q) - 1) |-> IF n < k THEN q[n] ELSE q[n + 1]]

\* The outcome tuples of the distributions extended: every outcome of L
\* bits, or all but the first or the last of them.
BitOutcomeTuples(cls) ==
    UNION {{Cube(cls, L)} \cup {Without(Cube(cls, L), k) : k \in {1, 2 ^ L}} :
              L \in 1..MaxBits}

\* The pmfs of the distributions extended.
BitPmfs(n, base) ==
    {[k \in 1..n |-> Stored(base, Norm(1, n))],
     [k \in 1..n |-> Stored(base, Norm(IF k = 1 THEN 2 ELSE 1, n + 1))]}

InitRvf ==
    /\ \E cls \in {"str", "tuple"}, base \in Bases :
          \E o \in BitOutcomeTuples(cls) :
             \E p \in BitPmfs(Len(o), base) :
                /\ objs = <<[outcomes |-> o, pmf |-> 1, base |-> base]>>
                /\ arrs = <<p>>
    /\ args = [d |-> 1, index |-> -1, single |-> TRUE, funcs |-> <<>>]
    /\ ret = NoRet
    /\ pre = [objs |-> objs, arrs |-> arrs]
    /\ gen = Idle

\* How the caller builds a function: the method of RVFunctions and its
\* arguments.
Recipe(method, indices, mapping, force, partition, hexes) ==
    [method |-> method, indices |-> indices, mapping |-> mapping, force |-> force,
     partition |-> partition, hexes |-> hexes]

\* The parity of the bits of an outcome.
RECURSIVE Parity(_)
Parity(q) ==
    IF q = <<>> THEN 0
    ELSE (BoolInt(q[1] \in {PStr(<<"1">>), PInt(1)}) + Parity(Tail(q))) % 2

\* Partitions of the outcomes q: by the first bit (the ones first), by
\* parity, and every outcome a group of its own.
Partitions(q) ==
    {<<SelectSeq(q, LAMBDA o : Parity(<<py_index(o, 0)>>) = 1),
       SelectSeq(q, LAMBDA o : Parity(<<py_index(o, 0)>>) = 0)>>,
     <<SelectSeq(q, LAMBDA o : Parity(py_iter(o)) = 0),
       SelectSeq(q, LAMBDA o : Parity(py_iter(o)) = 1)>>,
     [k \in 1..Len(q) |-> <<q[k]>>]}

\* The mapping of every outcome to its parity, the value given as a plain
\* int or as a str.
ParityMapping(q, asInt) ==
    [k \in 1..Len(q) |->
        Item(q[k], IF asInt THEN PInt(Parity(py_iter(q[k])))
                   ELSE PStr(<<DigitStr(Parity(py_iter(q[k])))>>))]

\* The functions a caller may build for a distribution with outcomes q.
Recipes(q) ==
    {Recipe("xor", <<i, j>>, <<>>, FALSE, <<>>, <<>>) :
        i \in 0..(py_len(q[1]) - 1), j \in (py_len(q[1]) - 1)..(py_len(q[1]) - 1)}
        \cup {Recipe("from_partition", <<0, 0>>, <<>>, FALSE, P, <<>>) : P \in Partitions(q)}
        \cup {Recipe("from_mapping", <<0, 0>>, ParityMapping(q, TRUE), f, <<>>, <<>>) :
                  f \in BOOLEAN}
        \cup {Recipe("from_mapping", <<0, 0>>, ParityMapping(q, FALSE), TRUE, <<>>, <<>>)}

\* The callable a recipe gives, or the exception building it raises.
Build(bf, r) ==
    IF r.method = "xor" THEN Ok(rvf_xor(bf, r.indices))
    ELSE IF r.method = "from_partition" THEN rvf_from_partition(bf, r.partition)
    ELSE IF r.method = "from_hexes" THEN Ok(rvf_from_hexes(bf, r.hexes))
    ELSE rvf_from_mapping(bf, r.mapping, r.force)

Indices == {-1, 0}

InsertRvf ==
    /\ ret = NoRet
    /\ \E single \in BOOLEAN, n \in 0..MaxFuncs, index \in Indices :
       \E rs \in [1..n -> Recipes(objs[args.d].outcomes)] :
          LET bf == RVFunctions(objs[args.d])
              built == [m \in 1..n |-> Build(bf, rs[m])]
              fs == [m \in 1..n |-> built[m].val]
          IN  /\ single => n = 1
              /\ args' = [args EXCEPT !.index = index, !.single = single, !.funcs = rs]
              /\ IF FirstErr(built) # ""
                 THEN Called(Outcome(objs, arrs, Raise(FirstErr(built))), "RVFunctions")
                 ELSE Called(insert_rvf(objs, arrs, args.d,
                                        IF single THEN OneFunc(fs[1]) ELSE FuncList(fs),
                                        index),
                             "insert_rvf")
    /\ UNCHANGED <<pre, gen>>

NextRvf ==
    InsertRvf

SpecRvf ==
    InitRvf /\ [][NextRvf]_vars

(***************************************************************************)
(* Boolean functions from hex digits: a caller holding a distribution over *)
(* bits calls insert_rvf(d, RVFunctions(d).from_hexes(hexes)).             *)
(***************************************************************************)
\* The characters of '0123456789abcdef' and of 'ABCDEF'.
HexDigits ==
    Range(SubSeq(alphabet, 1, 16)) \cup Range(SubSeq(alphabet, 37, 42))

\* The outcome tuples of the distributions extended: every outcome of L
\* bits (the functions assume full support).
HexOutcomeTuples(cls) ==
    {Cube(cls, L) : L \in 1..MaxHexBits}

\* The distributions are uniform, with linear probabilities.
InitHex ==
    /\ \E cls \in {"str", "tuple"} :
          \E o \in HexOutcomeTuples(cls) :
             /\ objs = <<[outcomes |-> o, pmf |-> 1, base |-> "linear"]>>
             /\ arrs = <<[k \in 1..Len(o) |-> Stored("linear", Norm(1, Len(o)))]>>
    /\ args = [d |-> 1, index |-> -1, single |-> TRUE, funcs |-> <<>>]
    /\ ret = NoRet
    /\ pre = [objs |-> objs, arrs |-> arrs]
    /\ gen = Idle

InsertHexes ==
    /\ ret = NoRet
    /\ \E n \in 0..MaxHexes :
       \E hexes \in [1..n -> HexDigits] :
          LET r == Recipe("from_hexes", <<0, 0>>, <<>>, FALSE, <<>>, hexes)
              f == Build(RVFunctions(objs[args.d]), r)
          IN  /\ args' = [args EXCEPT !.funcs = <<r>>]
              /\ Called(insert_rvf(objs, arrs, args.d, OneFunc(f.val), args.index),
                        "insert_rvf")
    /\ UNCHANGED <<pre, gen>>

NextHex ==
    InsertHexes

SpecHex ==
    InitHex /\ [][NextHex]_vars

(***************************************************************************)
(* Properties of insert_rvf and of the functions built for it.             *)
(***************************************************************************)
\* The distribution handed to insert_rvf as it was before the call.
RvfOld ==
    Deref(pre.objs, pre.arrs, args.d)

\* The callables the caller built from its recipes.
RvfFuncs ==
    [m \in 1..Len(args.funcs) |-> Build(RVFunctions(RvfOld), args.funcs[m]).val]

\* The elements of o followed by the elements of f_1(o), ..., f_k(o).
RECURSIVE Extended(_, _)
Extended(fs, o) ==
    IF fs = <<>> THEN py_iter(o)
    ELSE Extended(SubSeq(fs, 1, Len(fs) - 1), o) \o py_iter(call(fs[Len(fs)], o).val)

\* C9: insert_rvf returns a new distribution with as many outcomes as d,
\* each outcome o replaced by o + f_1(o) + ... + f_k(o) with the mass and the
\* base o had; d is unchanged and the pmf array of the result is not d's.
\* With functions that are defined everywhere (xor) the call succeeds.  For
\* d uniform over '00','01','10','11' and xor([0,1]) the result is over
\* '000','011','101','110' with mass 1/4 each.
C9_InsertRvfExtendsOutcomes ==
    /\ (ret.call = "insert_rvf" /\ ret.kind = "ref")
          => LET r == Deref(objs, arrs, ret.id)
             IN  /\ ret.id # args.d
                 /\ objs[ret.id].pmf # objs[args.d].pmf
                 /\ Deref(objs, arrs, args.d) = RvfOld
                 /\ r.base = RvfOld.base
                 /\ r.pmf = RvfOld.pmf
                 /\ Len(r.outcomes) = Len(RvfOld.outcomes)
                 /\ \A k \in 1..Len(r.outcomes) :
                       /\ r.outcomes[k].cls = RvfOld.outcomes[k].cls
                       /\ py_iter(r.outcomes[k]) = Extended(RvfFuncs, RvfOld.outcomes[k])
    /\ (/\ ret.call \in {"insert_rvf", "RVFunctions"}
        /\ args.funcs # <<>>
        /\ \A m \in 1..Len(args.funcs) : args.funcs[m].method = "xor")
          => ret.kind = "ref"
    /\ (/\ ret.call \in {"insert_rvf", "RVFunctions"}
        /\ RvfOld.outcomes = <<PStr(<<"0", "0">>), PStr(<<"0", "1">>),
                               PStr(<<"1", "0">>), PStr(<<"1", "1">>)>>
        /\ RvfOld.pmf = Repeat(Real(<<1, 4>>), 4)
        /\ Len(args.funcs) = 1
        /\ args.funcs[1].method = "xor"
        /\ args.funcs[1].indices = <<0, 1>>)
          => /\ ret.kind = "ref"
             /\ Deref(objs, arrs, ret.id).outcomes =
                    <<PStr(<<"0", "0", "0">>), PStr(<<"0", "1", "1">>),
                      PStr(<<"1", "0", "1">>), PStr(<<"1", "1", "0">>)>>
             /\ Deref(objs, arrs, ret.id).pmf = Repeat(Real(<<1, 4>>), 4)

\* Two functions with different values on some outcome, inserted as a list
\* into a distribution that is not uniform.
C9_Witness ==
    /\ ret.call = "insert_rvf" /\ ret.kind = "ref"
    /\ Len(args.funcs) = 2
    /\ \E k \in 1..Len(RvfOld.outcomes) :
          call(RvfFuncs[1], RvfOld.outcomes[k]) # call(RvfFuncs[2], RvfOld.outcomes[k])
    /\ Len(RvfOld.pmf) > 1
    /\ RvfOld.pmf[1] # RvfOld.pmf[2]

\* The group of the partition that holds outcome o, counted from 0.
GroupOf(partition, o) ==
    (CHOOSE i \in 1..Len(partition) : o \in Range(partition[i])) - 1

\* The value from_partition is to give for group i.
GroupValue(cls, i) ==
    IF cls = "str" THEN PStr(<<alphabet[i + 1]>>) ELSE PTuple(<<PInt(i)>>)

\* C10 (as claimed): for integer-tuple outcomes as for string outcomes, the
\* function from_partition returns is defined on every outcome and maps the
\* outcomes of group i to the value for i, so that insert_rvf with it
\* succeeds and appends that value to every outcome.
C10_FromPartitionTotal ==
    (/\ ret.kind # "none"
     /\ Len(args.funcs) = 1
     /\ args.funcs[1].method = "from_partition")
        => /\ ret.call = "insert_rvf"
           /\ ret.kind = "ref"
           /\ LET r == Deref(objs, arrs, ret.id)
                  cls == RvfOld.outcomes[1].cls
              IN  \A k \in 1..Len(RvfOld.outcomes) :
                     py_add(RvfOld.outcomes[k],
                            GroupValue(cls, GroupOf(args.funcs[1].partition,
                                                    RvfOld.outcomes[k]))).val
                         = r.outcomes[k]

\* The number a hex digit stands for.
HexNumber(h) ==
    [c \in HexDigits |->
        CASE c = "0" -> 0 [] c = "1" -> 1 [] c = "2" -> 2 [] c = "3" -> 3
          [] c = "4" -> 4 [] c = "5" -> 5 [] c = "6" -> 6 [] c = "7" -> 7
          [] c = "8" -> 8 [] c = "9" -> 9
          [] c \in {"a", "A"} -> 10 [] c \in {"b", "B"} -> 11
          [] c \in {"c", "C"} -> 12 [] c \in {"d", "D"} -> 13
          [] c \in {"e", "E"} -> 14 [] c \in {"f", "F"} -> 15][h]

\* The symbols of outcome o are the L-bit binary expansion of the number v.
IsExpansion(o, v) ==
    LET L == py_len(o)
    IN  /\ v < 2 ^ L
        /\ \A b \in 1..L :
              py_index(o, b - 1) \in
                  (IF (v \div (2 ^ (L - b))) % 2 = 1 THEN {PInt(1), PStr(<<"1">>)}
                   ELSE {PInt(0), PStr(<<"0">>)})

\* C12: inserting the function from_hexes(hexes) returns succeeds and
\* appends to every outcome 1 ('1' for string outcomes, the int 1 for tuple
\* outcomes) when its symbols are the L-bit binary expansion of one of the
\* digits of hexes, and 0 ('0') otherwise, a digit that needs more than L
\* bits matching no outcome; for the eight outcomes of three bits and '27'
\* the result is over '0000', '0010', '0101', '0110', '1000', '1010', '1100',
\* '1111'.
C12_FromHexesMarksPatterns ==
    (/\ ret.kind # "none"
     /\ Len(args.funcs) = 1
     /\ args.funcs[1].method = "from_hexes")
        => /\ ret.call = "insert_rvf"
           /\ ret.kind = "ref"
           /\ LET r == Deref(objs, arrs, ret.id)
                  hexes == args.funcs[1].hexes
              IN  /\ Len(r.outcomes) = Len(RvfOld.outcomes)
                  /\ \A k \in 1..Len(RvfOld.outcomes) :
                        LET o == RvfOld.outcomes[k]
                            hit == \E n \in 1..Len(hexes) :
                                      IsExpansion(o, HexNumber(hexes[n]))
                        IN  r.outcomes[k] =
                               IF o.cls = "str"
                               THEN PStr(o.chars \o <<IF hit THEN "1" ELSE "0">>)
                               ELSE PTuple(o.items \o <<PInt(IF hit THEN 1 ELSE 0)>>)
                  /\ (RvfOld.outcomes = Cube("str", 3) /\ hexes = <<"2", "7">>)
                        => r.outcomes =
                              <<PStr(<<"0", "0", "0", "0">>), PStr(<<"0", "0", "1", "0">>),
                                PStr(<<"0", "1", "0", "1">>), PStr(<<"0", "1", "1", "0">>),
                                PStr(<<"1", "0", "0", "0">>), PStr(<<"1", "0", "1", "0">>),
                                PStr(<<"1", "1", "0", "0">>), PStr(<<"1", "1", "1", "1">>)>>

\* from_hexes('27') inserted into the distribution over the eight strings of
\* three bits: '010' has become '0101'.
C12_Witness ==
    /\ ret.call = "insert_rvf" /\ ret.kind = "ref"
    /\ Len(args.funcs) = 1
    /\ args.funcs[1].method = "from_hexes"
    /\ args.funcs[1].hexes = <<"2", "7">>
    /\ RvfOld.outcomes = Cube("str", 3)
    /\ Deref(objs, arrs, ret.id).outcomes[3] = PStr(<<"0", "1", "0", "1">>)

\* from_hexes with an upper-case digit that needs four bits, inserted into a
\* distribution over tuples of two bits: no outcome is marked.
C12_WitnessTuples ==
    /\ ret.call = "insert_rvf" /\ ret.kind = "ref"
    /\ Len(args.funcs) = 1
    /\ args.funcs[1].method = "from_hexes"
    /\ args.funcs[1].hexes = <<"A">>
    /\ RvfOld.outcomes = Cube("tuple", 2)
    /\ \A k \in 1..4 : Deref(objs, arrs, ret.id).outcomes[k].items[3] = PInt(0)

\* C13 (as claimed): a call of insert_rvf with an index other than -1 does
\* not return a distribution; it is rejected with an exception.
C13_OtherIndexRejected ==
    (ret.call = "insert_rvf" /\ args.index # -1) => ret.kind = "error"

====
